---- MODULE Spec2Model ----
(***************************************************************************)
(* Model of hw4.py: the URL helpers (is_http_request, strip_http_request,  *)
(* strip_www, get_domain, is_non_local, rank_link), the rank-sorted link   *)
(* extraction and the crawl loop.                                          *)
(*                                                                         *)
(* A Python string is a sequence of one-character strings, so that         *)
(* indexing and slicing are modelled by what they do.                      *)
(***************************************************************************)
EXTENDS Integers, Sequences, FiniteSets, TLC

VARIABLES
    pc,                   \* position in crawl: "loop" at the while test, "fetched"
                          \* after the response is read, "iterated" at the end of
                          \* the loop body, "done" after return
    root,                 \* crawl argument
    wanted_content,       \* crawl argument
    within_domain,        \* crawl argument
    root_domain,          \* local of crawl
    queue,                \* the Queue, as its FIFO content
    visited,              \* local list of crawl
    extracted,            \* local list of crawl
    url,                  \* local of crawl: the URL popped last
    headers,              \* local of crawl: Content-Type of the response
    html,                 \* local of crawl: body of the response
    links_added_to_queue, \* local list of crawl
    status,               \* how the last loop iteration ended
    fn,                   \* URL helper applied last (helper specification)
    arg,                  \* its first argument
    arg2,                 \* its second argument
    res,                  \* its result
    prev,                 \* the result before the last re-application
    failed                \* history: the URLs whose fetch has failed

vars == <<pc, root, wanted_content, within_domain, root_domain, queue, visited,
          extracted, url, headers, html, links_added_to_queue, status,
          fn, arg, arg2, res, prev, failed>>

crawlVars == <<pc, root, wanted_content, within_domain, root_domain, queue,
               visited, extracted, url, headers, html, links_added_to_queue,
               status, failed>>

helperVars == <<fn, arg, arg2, res, prev>>

(***************************************************************************)
(* Bounds                                                                  *)
(***************************************************************************)
MaxLinks == 2      \* anchors on one page
MaxRandLen == 3    \* length of the free-form strings given to the helpers

(***************************************************************************)
(* Python string primitives                                                *)
(***************************************************************************)
Range(s) == {s[i] : i \in 1..Len(s)}

Min(a, b) == IF a < b THEN a ELSE b

\* s[a:b] for 0 <= a, 0 <= b
Slice(s, a, b) ==
    IF a >= Min(b, Len(s)) THEN <<>> ELSE SubSeq(s, a + 1, Min(b, Len(s)))

HTTP == <<"h", "t", "t", "p", ":", "/", "/">>
HTTPS == <<"h", "t", "t", "p", "s", ":", "/", "/">>
WWW == <<"w", "w", "w", ".">>

(***************************************************************************)
(* URL helpers                                                             *)
(***************************************************************************)
\* The function falls off its end (None) where no branch returns True;
\* None is falsy and is modelled as FALSE.
is_http_request(u) ==
    IF Len(u) > 8 /\ u[5] = "s"
    THEN IF Slice(u, 0, 8) = HTTPS THEN TRUE ELSE FALSE
    ELSE IF Len(u) > 7
         THEN IF Slice(u, 0, 7) = HTTP THEN TRUE ELSE FALSE
         ELSE FALSE

\* `elif is_http_request:` tests the function object, which is always truthy
FunctionObjectTruthy == TRUE

strip_http_request(u) ==
    IF is_http_request(u) /\ u[5] = "s"
    THEN Slice(u, 8, Len(u))
    ELSE IF FunctionObjectTruthy
         THEN Slice(u, 7, Len(u))
         ELSE u

strip_www(u) ==
    IF Len(u) > 4 /\ u[1] = "w" /\ u[2] = "w" /\ u[3] = "w" /\ u[4] = "."
    THEN Slice(u, 4, Len(u))
    ELSE u

\* the while loop of get_domain, i counted from 0 as in the source
RECURSIVE get_domain_loop(_, _, _)
get_domain_loop(s, i, domain) ==
    IF i < Len(s) /\ s[i + 1] # "/"
    THEN get_domain_loop(s, i + 1, Append(domain, s[i + 1]))
    ELSE domain

get_domain(u) == get_domain_loop(strip_www(strip_http_request(u)), 0, <<>>)

\* variant: every link counts as non-local
is_non_local_Any(u, stripped_root_link) == TRUE

is_non_local(u, stripped_root_link) ==
    IF is_http_request(u)
    THEN IF strip_http_request(u) # stripped_root_link THEN TRUE ELSE FALSE
    ELSE FALSE

RECURSIVE CountSlash(_)
CountSlash(s) ==
    IF s = <<>> THEN 0
    ELSE (IF Head(s) = "/" THEN 1 ELSE 0) + CountSlash(Tail(s))

\* a link is <<url, text>>
rank_link(link) == 10 * CountSlash(strip_http_request(link[1])) + Len(link[2])

(***************************************************************************)
(* The web as crawl sees it: URLs, links, response bodies, content types   *)
(***************************************************************************)
U_R == HTTP \o <<"a", ".", "c", "o">>
U_A == HTTP \o <<"a", ".", "c", "o", "/", "x">>
U_B == HTTPS \o WWW \o <<"a", ".", "c", "o", "/", "x", "/", "y">>
U_X == HTTP \o <<"b", ".", "c", "o", "/", "x">>
U_F == <<"f", "t", "p", ":", "/", "/", "a", ".", "c", "o">>

Roots == {U_R, U_A}

\* what parse.urljoin and the text normalisation yield for one anchor
LinkSet ==
    { <<U_A, <<>>>>, <<U_B, <<>>>>, <<U_X, <<>>>>, <<U_F, <<>>>> }

\* the matches of the four patterns of extract_information in the body served
\* at a URL, as <<category, match>>
FindsAt(u) ==
    CASE u = U_A -> << <<"PHONE", "555-123-4567">> >>
      [] u = U_B -> << <<"PHONE", "(555) 123-4567">>, <<"EMAIL", "a@b.edu">> >>
      [] u = U_X -> << <<"ADDRESS", "Baltimore, MD 21218">> >>
      [] OTHER -> <<>>

RECURSIVE SeqsUpTo(_, _)
SeqsUpTo(S, n) ==
    IF n = 0 THEN {<<>>}
    ELSE LET shorter == SeqsUpTo(S, n - 1)
         IN  shorter \cup {Append(s, x) : s \in shorter, x \in S}

HeaderSet ==
    { "text/html; charset=UTF-8", "application/pdf" }

\* the anchor lists a page can carry, in document order
LinkLists == SeqsUpTo(LinkSet, MaxLinks)

\* a response body served at u, by the anchors and the matches it contains
Body(u, links) == [links |-> links, finds |-> FindsAt(u)]

NoBody == [links |-> <<>>, finds |-> <<>>]

WantedChoices ==
    { <<>>, <<"HTML">>, <<"pdf">>, <<"text", "pdf">> }

\* str.lower on the content names above
lower(c) ==
    CASE c = "HTML" -> "html"
      [] c = "Zip" -> "zip"
      [] OTHER -> c

content_types ==
    [k \in {"text", "html", "pdf:", "zip:", "jpeg", "png", "pptx"} |->
        CASE k = "text" -> <<"text/html; charset=UTF-8", "text/plain; charset=UTF-8">>
          [] k = "html" -> <<"text/html; charset=UTF-8">>
          [] k = "pdf:" -> <<"application/pdf">>
          [] k = "zip:" -> <<"application/zip">>
          [] k = "jpeg" -> <<"image/jpeg">>
          [] k = "png" -> <<"image/png">>
          [] k = "pptx" -> <<"application/vnd.ms-powerpoint">>]

(***************************************************************************)
(* parse_links_sorted: list.sort(reverse=True, key=rank_link) is stable    *)
(***************************************************************************)
\* variant: a sort that is not stable, equal ranks end up reversed
RECURSIVE InsertByRank_Unstable(_, _)
InsertByRank_Unstable(s, x) ==
    IF s = <<>> THEN <<x>>
    ELSE IF rank_link(Head(s)) > rank_link(x)
         THEN <<Head(s)>> \o InsertByRank_Unstable(Tail(s), x)
         ELSE <<x>> \o s

RECURSIVE InsertByRank(_, _)
InsertByRank(s, x) ==
    IF s = <<>> THEN <<x>>
    ELSE IF rank_link(Head(s)) >= rank_link(x)
         THEN <<Head(s)>> \o InsertByRank(Tail(s), x)
         ELSE <<x>> \o s

RECURSIVE SortByRank(_, _)
SortByRank(urls, sorted) ==
    IF urls = <<>> THEN sorted
    ELSE SortByRank(Tail(urls), InsertByRank(sorted, Head(urls)))

\* the sort, computed once for every anchor list of the model
SortedLinks == [l \in LinkLists |-> SortByRank(l, <<>>)]

parse_links_sorted(body) == SortedLinks[body.links]

extract_information(address, body) ==
    [i \in 1..Len(body.finds) |-> <<address, body.finds[i][1], body.finds[i][2]>>]

(***************************************************************************)
(* crawl: the content-type filter                                          *)
(***************************************************************************)
\* the two nested for loops; a content name that is no key raises KeyError
RECURSIVE content_loop(_, _, _)
content_loop(wanted, hdr, content_matches) ==
    IF wanted = <<>>
    THEN IF content_matches THEN "match" ELSE "no_match"
    ELSE IF lower(Head(wanted)) \notin DOMAIN content_types
         THEN "KeyError"
         ELSE content_loop(Tail(wanted), hdr,
                  content_matches \/ hdr \in Range(content_types[lower(Head(wanted))]))

\* variant: the filter lets every page through
content_check_Unfiltered(wanted, hdr) == "match"

content_check(wanted, hdr) ==
    IF Len(wanted) > 0 THEN content_loop(wanted, hdr, FALSE) ELSE "match"

(***************************************************************************)
(* crawl: the link loop                                                    *)
(***************************************************************************)
\* variant: no duplicate-on-page guard
NotAddedFromThisPage_Unchecked(link, added) == TRUE

NotAddedFromThisPage(link, added) == link \notin Range(added)

\* variant: no visited guard
NotVisited_Unchecked(link, vis) == TRUE

NotVisited(link, vis) == link \notin Range(vis)

\* variant: the domain is not compared
DomainAllowed_Unchecked(link, wd, rd) == TRUE

DomainAllowed(link, wd, rd) == ~wd \/ get_domain(link) = rd

\* returns <<links_added_to_queue, queue>> after the for loop
RECURSIVE link_loop(_, _, _, _, _, _, _)
link_loop(links, added, q, vis, stripped_root_link, wd, rd) ==
    IF links = <<>> THEN <<added, q>>
    ELSE LET link == Head(links)[1]
         IN  IF /\ NotAddedFromThisPage(link, added)
                /\ is_non_local(link, stripped_root_link)
                /\ NotVisited(link, vis)
                /\ DomainAllowed(link, wd, rd)
             THEN link_loop(Tail(links), Append(added, link), Append(q, link),
                            vis, stripped_root_link, wd, rd)
             ELSE link_loop(Tail(links), added, q, vis, stripped_root_link, wd, rd)

(***************************************************************************)
(* crawl: the state machine                                                *)
(***************************************************************************)
Init ==
    /\ pc = "loop"
    /\ root \in Roots
    /\ wanted_content \in WantedChoices
    /\ within_domain \in BOOLEAN
    /\ root_domain = get_domain(root)
    /\ queue = <<root>>
    /\ visited = <<>>
    /\ extracted = <<>>
    /\ url = <<>>
    /\ headers = "unset"
    /\ html = NoBody
    /\ links_added_to_queue = <<>>
    /\ status = "start"
    /\ fn = "none"
    /\ arg = <<>>
    /\ arg2 = <<>>
    /\ res = <<>>
    /\ prev = <<>>
    /\ failed = {}

Popping == pc = "loop" /\ queue # <<>>

crawlArgs == <<root, wanted_content, within_domain, root_domain>>

\* variant: the handler puts the failed URL back on the queue
FetchError_Requeues ==
    /\ Popping
    /\ url' = Head(queue)
    /\ queue' = Append(Tail(queue), Head(queue))
    /\ status' = "fetch_error"
    /\ UNCHANGED <<pc, visited, extracted, headers, html, links_added_to_queue>>
    /\ failed' = failed \cup {Head(queue)}
    /\ UNCHANGED <<crawlArgs, helperVars>>

\* variant: the exception is not caught and ends crawl
FetchError_Uncaught ==
    /\ Popping
    /\ url' = Head(queue)
    /\ queue' = Tail(queue)
    /\ status' = "fetch_error"
    /\ pc' = "done"
    /\ UNCHANGED <<visited, extracted, headers, html, links_added_to_queue>>
    /\ failed' = failed \cup {Head(queue)}
    /\ UNCHANGED <<crawlArgs, helperVars>>

\* queue.get(), then request.urlopen, req.read or the header lookup raises;
\* the handler prints and the loop goes on
FetchError ==
    /\ Popping
    /\ url' = Head(queue)
    /\ queue' = Tail(queue)
    /\ status' = "fetch_error"
    /\ UNCHANGED <<pc, visited, extracted, headers, html, links_added_to_queue>>
    /\ failed' = failed \cup {Head(queue)}
    /\ UNCHANGED <<crawlArgs, helperVars>>

\* queue.get(), then the response is read: url, html and headers are assigned
Fetch ==
    /\ Popping
    /\ \E hdr \in HeaderSet, links \in LinkLists :
        /\ url' = Head(queue)
        /\ headers' = hdr
        /\ html' = Body(Head(queue), links)
    /\ queue' = Tail(queue)
    /\ pc' = "fetched"
    /\ status' = "fetched"
    /\ UNCHANGED <<visited, extracted, links_added_to_queue>>
    /\ UNCHANGED <<crawlArgs, helperVars, failed>>

\* content_types[content.lower()] raises KeyError
ContentKeyError ==
    /\ pc = "fetched"
    /\ content_check(wanted_content, headers) = "KeyError"
    /\ pc' = "iterated"
    /\ status' = "key_error"
    /\ UNCHANGED <<queue, visited, extracted, url, headers, html, links_added_to_queue>>
    /\ UNCHANGED <<crawlArgs, helperVars, failed>>

\* variant: the findings are taken before the page is dropped
Filtered_Extracts ==
    /\ pc = "fetched"
    /\ content_check(wanted_content, headers) = "no_match"
    /\ extracted' = extracted \o extract_information(url, html)
    /\ pc' = "iterated"
    /\ status' = "filtered"
    /\ UNCHANGED <<queue, visited, url, headers, html, links_added_to_queue>>
    /\ UNCHANGED <<crawlArgs, helperVars, failed>>

\* `if not content_matches: continue`
Filtered ==
    /\ pc = "fetched"
    /\ content_check(wanted_content, headers) = "no_match"
    /\ pc' = "iterated"
    /\ status' = "filtered"
    /\ UNCHANGED <<queue, visited, extracted, url, headers, html, links_added_to_queue>>
    /\ UNCHANGED <<crawlArgs, helperVars, failed>>

\* extract_information raises after visited.append(url)
ExtractError ==
    /\ pc = "fetched"
    /\ content_check(wanted_content, headers) = "match"
    /\ visited' = Append(visited, url)
    /\ pc' = "iterated"
    /\ status' = "extract_error"
    /\ UNCHANGED <<queue, extracted, url, headers, html, links_added_to_queue>>
    /\ UNCHANGED <<crawlArgs, helperVars, failed>>

\* parse_links_sorted raises on its first step, after the findings are
\* appended and links_added_to_queue is reset
ParseError ==
    /\ pc = "fetched"
    /\ content_check(wanted_content, headers) = "match"
    /\ visited' = Append(visited, url)
    /\ extracted' = extracted \o extract_information(url, html)
    /\ links_added_to_queue' = <<>>
    /\ pc' = "iterated"
    /\ status' = "parse_error"
    /\ UNCHANGED <<queue, url, headers, html>>
    /\ UNCHANGED <<crawlArgs, helperVars, failed>>

\* the rest of the loop body runs to its end
Processed ==
    /\ pc = "fetched"
    /\ content_check(wanted_content, headers) = "match"
    /\ visited' = Append(visited, url)
    /\ extracted' = extracted \o extract_information(url, html)
    /\ LET r == link_loop(parse_links_sorted(html), <<>>, queue, visited',
                          strip_http_request(url), within_domain, root_domain)
       IN  /\ links_added_to_queue' = r[1]
           /\ queue' = r[2]
    /\ pc' = "iterated"
    /\ status' = "processed"
    /\ UNCHANGED <<url, headers, html>>
    /\ UNCHANGED <<crawlArgs, helperVars, failed>>

\* back to the while test.  html, headers and links_added_to_queue are
\* assigned again before the next iteration reads them, so their old values
\* are dropped here.
NextIteration ==
    /\ pc = "iterated"
    /\ pc' = "loop"
    /\ headers' = "unset"
    /\ html' = NoBody
    /\ links_added_to_queue' = <<>>
    /\ UNCHANGED <<queue, visited, extracted, url, status>>
    /\ UNCHANGED <<crawlArgs, helperVars, failed>>

\* `while not queue.empty()` ends; visited, extracted are returned
Return ==
    /\ pc = "loop"
    /\ queue = <<>>
    /\ pc' = "done"
    /\ UNCHANGED <<queue, visited, extracted, url, headers, html,
                   links_added_to_queue, status>>
    /\ UNCHANGED <<crawlArgs, helperVars, failed>>

Next ==
    \/ FetchError
    \/ Fetch
    \/ ContentKeyError
    \/ Filtered
    \/ ExtractError
    \/ ParseError
    \/ Processed
    \/ NextIteration
    \/ Return

Spec == Init /\ [][Next]_vars

\* the single thread of crawl keeps running until it returns
FairSpec == Spec /\ WF_vars(Next)


(***************************************************************************)
(* The URL helpers on their own: an input is drawn, a helper is applied    *)
(***************************************************************************)
Schemes ==
    { <<>>, HTTP, HTTPS, <<"h", "t", "t", "p", "s">>,
      <<"f", "t", "p", ":", "/", "/">> }

Hosts == { <<>>, <<"a", ".", "c", "o">>, WWW \o <<"a", ".", "c", "o">> }

Paths == { <<>>, <<"/">>, <<"/", "x">>, <<"/", "x", "/", "y">> }

HelperInputs ==
    {s \o h \o p : s \in Schemes, h \in Hosts, p \in Paths}
        \cup SeqsUpTo({"h", "s", "/", "w"}, MaxRandLen)

\* second arguments: a stripped root link, or a link text
SecondInputs == { <<>>, <<"a", ".", "c", "o">>, <<"a", ".", "c", "o", "/", "x">> }

HelperInit ==
    /\ pc = "idle"
    /\ root = <<>>
    /\ wanted_content = <<>>
    /\ within_domain = TRUE
    /\ root_domain = <<>>
    /\ queue = <<>>
    /\ visited = <<>>
    /\ extracted = <<>>
    /\ url = <<>>
    /\ headers = "unset"
    /\ html = NoBody
    /\ links_added_to_queue = <<>>
    /\ status = "start"
    /\ fn = "none"
    /\ arg \in HelperInputs
    /\ arg2 \in SecondInputs
    /\ res = <<>>
    /\ prev = <<>>
    /\ failed = {}

Apply(name, value) ==
    /\ fn = "none"
    /\ fn' = name
    /\ res' = value
    /\ UNCHANGED <<arg, arg2, prev, crawlVars>>

Call_is_http_request == Apply("is_http_request", is_http_request(arg))

Call_strip_http_request == Apply("strip_http_request", strip_http_request(arg))

Call_strip_www == Apply("strip_www", strip_www(arg))

Call_get_domain == Apply("get_domain", get_domain(arg))

Call_is_non_local == Apply("is_non_local", is_non_local(arg, arg2))

Call_rank_link == Apply("rank_link", rank_link(<<arg, arg2>>))

\* the helper is applied to its own result
Reapply(name, again, value) ==
    /\ fn = name
    /\ fn' = again
    /\ prev' = res
    /\ res' = value
    /\ UNCHANGED <<arg, arg2, crawlVars>>

Call_strip_http_request_again ==
    Reapply("strip_http_request", "strip_http_request twice", strip_http_request(res))

Call_get_domain_again ==
    Reapply("get_domain", "get_domain twice", get_domain(res))

HelperNext ==
    \/ Call_is_http_request
    \/ Call_strip_http_request
    \/ Call_strip_www
    \/ Call_get_domain
    \/ Call_is_non_local
    \/ Call_rank_link
    \/ Call_strip_http_request_again
    \/ Call_get_domain_again

HelperSpec == HelperInit /\ [][HelperNext]_vars


(***************************************************************************)
(* Properties                                                              *)
(***************************************************************************)
HasPrefix(s, p) == Len(s) >= Len(p) /\ SubSeq(s, 1, Len(p)) = p

NoDuplicates(s) == \A i, j \in 1..Len(s) : s[i] = s[j] => i = j

\* what the loop body appended to the frontier in this step
Enqueued == SubSeq(queue', Len(queue) + 1, Len(queue'))

\* a link the page carries that only the visited and per-page guards can stop
Eligible(link) ==
    /\ is_non_local(link, strip_http_request(url))
    /\ ~within_domain \/ get_domain(link) = root_domain

\* the accepted MIME signatures of a wanted type, under the clean key set
\* text, html, pdf, zip, jpeg, png, pptx
Accepted(type) ==
    CASE type = "pdf" -> Range(content_types["pdf:"])
      [] type = "zip" -> Range(content_types["zip:"])
      [] type \in {"text", "html", "jpeg", "png", "pptx"} -> Range(content_types[type])
      [] OTHER -> {}

SomeWantedTypeAccepts == \E c \in Range(wanted_content) : headers \in Accepted(lower(c))

\* C1: no URL is recorded in the visited list more than once.
C1_VisitedHasNoDuplicates == NoDuplicates(visited)

\* C2: while a page is processed, a link that is in the visited list at that
\* moment is never put on the frontier.
C2_VisitedLinkNeverEnqueued ==
    [][pc = "fetched" => \A i \in 1..Len(Enqueued) : Enqueued[i] \notin Range(visited')]_vars

\* a processed page carried an otherwise eligible link to a page visited before
C2_Witness ==
    /\ pc = "iterated"
    /\ status = "processed"
    /\ \E i \in 1..Len(html.links) :
          /\ html.links[i][1] \in Range(visited)
          /\ html.links[i][1] # url
          /\ Eligible(html.links[i][1])
          /\ html.links[i][1] \notin Range(queue)

\* C3: while one page is processed, each distinct link URL is put on the
\* frontier at most once, however many anchors resolve to it.
C3_OncePerPage == [][pc = "fetched" => NoDuplicates(Enqueued)]_vars

\* a processed page carried two anchors for one URL, which is enqueued
C3_Witness ==
    /\ pc = "iterated"
    /\ status = "processed"
    /\ \E i, j \in 1..Len(html.links) :
          /\ i # j
          /\ html.links[i][1] = html.links[j][1]
          /\ html.links[i][1] \in Range(links_added_to_queue)
          /\ html.links[i][1] \in Range(queue)

\* C4: with within_domain true, every URL on the frontier and every URL in
\* the visited list has the domain of the root.
C4_WithinDomain ==
    within_domain =>
        \A u \in Range(queue) \cup Range(visited) : get_domain(u) = get_domain(root)

\* a within-domain crawl processed a page with a link into another domain and
\* a link it enqueued
C4_Witness ==
    /\ within_domain
    /\ pc = "iterated"
    /\ status = "processed"
    /\ links_added_to_queue # <<>>
    /\ \E i \in 1..Len(html.links) :
          /\ is_non_local(html.links[i][1], strip_http_request(url))
          /\ html.links[i][1] \notin Range(visited)
          /\ get_domain(html.links[i][1]) # get_domain(root)

\* C5: a fetch failure does not abort crawl: the step that fails only pops
\* the failed URL and stays in the loop with the rest of the frontier intact,
\* and from there crawl keeps popping until the frontier is empty and returns.
C5_FetchFailureNotFatal ==
    /\ [][status' = "fetch_error" /\ pc = "loop" /\ queue # <<>> =>
            /\ pc' = "loop"
            /\ queue' = Tail(queue)
            /\ visited' = visited
            /\ extracted' = extracted]_vars
    /\ [](status = "fetch_error" => <>(pc = "done" /\ queue = <<>>))

\* the fetch of a URL other than the root failed with URLs left on the frontier
C5_Witness ==
    /\ status = "fetch_error"
    /\ pc = "loop"
    /\ url # root
    /\ queue # <<>>
    /\ visited # <<>>

\* C6: with wanted_content non-empty and a content type that no wanted type
\* accepts, processing the page changes neither the visited list nor the
\* findings nor the frontier.
C6_FilteredPageLeavesNoTrace ==
    [][pc = "fetched" /\ Len(wanted_content) > 0 /\ ~SomeWantedTypeAccepts =>
          /\ visited' = visited
          /\ extracted' = extracted
          /\ queue' = queue]_vars

\* a page with matches and an enqueueable link was filtered out
C6_Witness ==
    /\ pc = "iterated"
    /\ status = "filtered"
    /\ html.finds # <<>>
    /\ \E i \in 1..Len(html.links) :
          /\ Eligible(html.links[i][1])
          /\ html.links[i][1] \notin Range(visited)

\* C7: a page whose content type is an accepted signature of a wanted type
\* passes the filter and is recorded in the visited list.
C7_AcceptedTypeIsVisited ==
    pc = "iterated" /\ SomeWantedTypeAccepts => url \in Range(visited)

\* C8: strip_http_request removes a leading https:// or http:// and returns
\* every other string unchanged.
C8_StripsOnlyTheScheme ==
    fn = "strip_http_request" =>
        res = IF HasPrefix(arg, HTTPS) THEN SubSeq(arg, Len(HTTPS) + 1, Len(arg))
              ELSE IF HasPrefix(arg, HTTP) THEN SubSeq(arg, Len(HTTP) + 1, Len(arg))
              ELSE arg

\* C9: strip_http_request applied to its own result changes nothing.
C9_StripIdempotent == fn = "strip_http_request twice" => res = prev

\* C10: is_non_local(url, stripped_root) is true exactly when url begins with
\* http:// or https:// and its stripped form differs from stripped_root.
C10_NonLocalIff ==
    fn = "is_non_local" =>
        (res <=> /\ HasPrefix(arg, HTTP) \/ HasPrefix(arg, HTTPS)
                 /\ strip_http_request(arg) # arg2)


\* the URL with only a leading https:// or http:// removed
StrippedOfScheme(s) ==
    IF HasPrefix(s, HTTPS) THEN SubSeq(s, Len(HTTPS) + 1, Len(s))
    ELSE IF HasPrefix(s, HTTP) THEN SubSeq(s, Len(HTTP) + 1, Len(s))
    ELSE s

\* C11: rank_link returns 10 times the number of '/' in the scheme-stripped
\* URL plus the length of the text, also for URLs without http(s) scheme.
C11_RankFormula ==
    fn = "rank_link" => res = 10 * CountSlash(StrippedOfScheme(arg)) + Len(arg2)

\* C18: is_http_request is truthy exactly on the strings that begin with
\* http:// or https://, the bare prefixes included.
C18_HttpIffPrefix ==
    fn = "is_http_request" => (res <=> HasPrefix(arg, HTTP) \/ HasPrefix(arg, HTTPS))

\* C19: get_domain applied to its own result changes nothing, and on a URL
\* without path it is the www-stripped, scheme-stripped URL.
C19_DomainIdempotent ==
    /\ fn = "get_domain twice" => res = prev
    /\ fn = "get_domain" /\ "/" \notin Range(strip_http_request(arg)) =>
          res = strip_www(strip_http_request(arg))


\* C12: crawl terminates: the frontier becomes empty and crawl returns.
C12_Terminates == <>(pc = "done" /\ queue = <<>>)

\* crawl returned after fetch failures and after visiting one URL twice
C12_Witness ==
    /\ pc = "done"
    /\ status = "fetch_error"
    /\ ~NoDuplicates(visited)

\* the anchors of the page that resolve to u, by position in the document
AnchorsOf(u) == {i \in 1..Len(html.links) : html.links[i][1] = u}

\* the rank under which u leaves the sorted anchor list first
BestRank(u) ==
    CHOOSE r \in {rank_link(html.links[i]) : i \in AnchorsOf(u)} :
        \A i \in AnchorsOf(u) : rank_link(html.links[i]) <= r

\* the document position of the first anchor of u with that rank
BestPos(u) ==
    CHOOSE i \in AnchorsOf(u) :
        /\ rank_link(html.links[i]) = BestRank(u)
        /\ \A j \in AnchorsOf(u) : rank_link(html.links[j]) = BestRank(u) => i <= j

\* C13: the links enqueued from one page are enqueued by rank descending,
\* and links of equal rank in document order.
C13_EnqueuedByRank ==
    [][pc = "fetched" =>
          \A i, j \in 1..Len(Enqueued) :
              i < j =>
                  \/ BestRank(Enqueued[i]) > BestRank(Enqueued[j])
                  \/ /\ BestRank(Enqueued[i]) = BestRank(Enqueued[j])
                     /\ BestPos(Enqueued[i]) < BestPos(Enqueued[j])]_vars

\* a processed page enqueued two links of equal rank
C13_Witness ==
    /\ pc = "iterated"
    /\ status = "processed"
    /\ \E i, j \in 1..Len(links_added_to_queue) :
          /\ i < j
          /\ BestRank(links_added_to_queue[i]) = BestRank(links_added_to_queue[j])
          /\ links_added_to_queue[i] \in Range(queue)

\* the rank of a URL on the frontier; the anchors of the model carry no text
FrontierRank(u) == rank_link(<<u, <<>>>>)

\* C14: whenever crawl pops a URL, no URL still pending on the frontier has
\* a strictly higher rank than the popped one.
C14_PopsHighestRank ==
    pc = "loop" /\ queue # <<>> =>
        \A i \in 2..Len(queue) : FrontierRank(queue[i]) <= FrontierRank(Head(queue))

\* C16: an iteration that raises an error, at the fetch, at the content-type
\* lookup, in extract_information or in parse_links_sorted, leaves no trace:
\* its URL is not recorded visited, it adds no finding and enqueues no link.
C16_ErrorLeavesNoTrace ==
    [][status' \in {"fetch_error", "key_error", "extract_error", "parse_error"} =>
          /\ visited' = visited
          /\ extracted' = extracted
          /\ Len(queue') <= Len(queue)]_vars

\* C17: every URL the loop body puts on the frontier begins with http:// or
\* https:// and its stripped form differs from the stripped URL of the page.
C17_EnqueuedIsHttpAndNotThePage ==
    [][pc = "fetched" =>
          \A i \in 1..Len(Enqueued) :
              /\ HasPrefix(Enqueued[i], HTTP) \/ HasPrefix(Enqueued[i], HTTPS)
              /\ StrippedOfScheme(Enqueued[i]) # StrippedOfScheme(url)]_vars

\* a processed page carried a link to itself and a link without http(s)
\* scheme, and enqueued a link into its own domain
C17_Witness ==
    /\ pc = "iterated"
    /\ status = "processed"
    /\ \E i, j \in 1..Len(html.links) :
          /\ html.links[i][1] = U_F \/ html.links[i][1] = url
          /\ html.links[j][1] \in Range(links_added_to_queue)
          /\ get_domain(html.links[j][1]) = get_domain(url)

IsPrefixOf(s, t) == Len(s) <= Len(t) /\ SubSeq(t, 1, Len(s)) = s

\* C20: the visited list only grows by appending, and the source URL of
\* every finding is in the visited list.
C20_VisitedGrowsFindingsVisited ==
    /\ [][IsPrefixOf(visited, visited')]_vars
    /\ [](\A i \in 1..Len(extracted) : extracted[i][1] \in Range(visited))

\* findings of two visited pages are recorded
C20_Witness ==
    /\ Len(visited) >= 2
    /\ \E i, j \in 1..Len(extracted) : extracted[i][1] # extracted[j][1]

\* C15: a URL whose fetch has failed is never fetched a second time.
C15_FailedNeverFetchedAgain ==
    [][Popping => Head(queue) \notin failed]_vars

====
